---- MODULE Spec2Model ----
(***************************************************************************)
(* A model of src/app.jsx (GeminiPost): the handlers of the App component  *)
(* that talk to the document store (handlePostSubmit, handlePostDelete,    *)
(* handleCommentSubmit, handleCommentDelete, handleVote), the snapshot     *)
(* listeners that rebuild the displayed posts and their comment forests,   *)
(* and the auth handlers with the onAuthStateChanged callback.             *)
(*                                                                         *)
(* Every `await` of a handler is a point where other clients' handlers may *)
(* run, so a handler is one action per stretch of code between two awaits. *)
(* Document ids are the store's auto-generated ids: fresh on every addDoc, *)
(* never reused, and distinct between posts and comments.                  *)
(***************************************************************************)
EXTENDS Integers, Sequences, FiniteSets, TLC

\* ---------------------------------------------------------------- bounds
\* How many posts / comments are ever created (addDoc calls).
MaxPosts == 2
MaxComments == 3
\* The same, for the runs that follow the votes or the comments of one post.
MaxRunPosts == 1
\* The same, for the runs that follow the displayed list.
MaxFeedComments == 2
\* The same, for the runs followed until the store is quiet.
MaxLiveComments == 1
\* The same, for the runs of one client's handlers.
MaxClientComments == 1
\* How many comment subscriptions the posts listener may open per post.
MaxSubs == 3
\* How many vote clicks (handleVote invocations) a run explores.
MaxVotes == 3
\* The same, for the runs where each call settles before the next click.
MaxSeqVotes == 4

\* The signed-in identities (user.uid); NoUser is the `user` state null.
Users == {"u1", "u2"}
NoUser == "null"
\* Concurrent handleVote invocations (each in some client's browser).
Calls == {"a", "b"}
\* Auth-state callbacks in flight in the watching client.
AuthSlots == {"x", "y"}
\* createdAt values (new Date() of the submitting client).
Times == {1, 2}
\* The vote types the buttons pass.
VoteTypes == {"like", "dislike"}

PostId(n) == <<"p", n>>
CommentId(n) == <<"c", n>>
AllPostIds == {PostId(n) : n \in 1..MaxPosts}
NoId == <<>>
\* parentCommentId of a top-level comment.
Null == <<>>

VARIABLES
    posts,        \* store: collection posts, id -> document
    comments,     \* store: posts/{id}/comments, in document-id order
    nextPost,     \* the number of the next post addDoc creates
    nextComment,  \* the number of the next comment addDoc creates
    call,         \* the handleVote invocations in flight, by slot
    uiPosts,      \* React state `posts`: the displayed list
    subs,         \* active comment subscriptions per post id
    postOrder,    \* store: the post ids in document-id order (snapshot.docs)
    raced,        \* history: the calls that wrote the item since this call's read
    hist,         \* history: the last completed votes (sequential runs)
    lastSnapshot, \* history: the last comment snapshot delivered
    clicks,       \* how many times a vote button was clicked
    user,         \* React state `user` (its uid, or NoUser for null)
    isAuthReady,  \* React state `isAuthReady`
    modalMessage, \* React state `modalMessage` ("" when the box is closed)
    authUser,     \* auth.currentUser
    authCalls,    \* the onAuthStateChanged callbacks in flight, by slot
    userDocs,     \* store: collection users, uid -> document
    postsListener, \* the posts subscription: "none", "open" or "closed"
    pending,      \* store: snapshot notifications not yet delivered
    lastCall      \* history: the last handler invoked in the watching client

\* The watching client's own state, and its listeners' state in the store.
clientVars == <<user, isAuthReady, modalMessage, authUser, authCalls, userDocs>>
feedVars == <<postsListener, pending>>

vars == <<posts, comments, nextPost, nextComment, call, uiPosts, subs,
          postOrder, raced, hist, lastSnapshot, clicks,
          user, isAuthReady, modalMessage, authUser, authCalls, userDocs,
          postsListener, pending, lastCall>>

\* ------------------------------------------------------- documents
\* The vote fields every post and comment is created with.
NewVoteFields == [likes |-> 0, dislikes |-> 0, likers |-> <<>>, dislikers |-> <<>>]

NewPost(u, t) ==
    [userId |-> u, createdAt |-> t,
     likes |-> 0, dislikes |-> 0, likers |-> <<>>, dislikers |-> <<>>]

NewComment(id, u, parent) ==
    [id |-> id, userId |-> u, parentCommentId |-> parent,
     likes |-> 0, dislikes |-> 0, likers |-> <<>>, dislikers |-> <<>>]

\* The part of a document handleVote reads.
VoteFields(d) ==
    [likes |-> d.likes, dislikes |-> d.dislikes,
     likers |-> d.likers, dislikers |-> d.dislikers]

\* updateDoc: only the named fields change.
Merge(d, fields) ==
    [k \in DOMAIN d |-> IF k \in DOMAIN fields THEN fields[k] ELSE d[k]]

\* Array.prototype.includes
Includes(s, x) == \E i \in 1..Len(s) : s[i] = x

\* likers.filter(id => id !== userId)
Filter(s, x) == SelectSeq(s, LAMBDA y : y # x)

ElemsOf(s) == {s[i] : i \in 1..Len(s)}

Occurrences(s, x) == Cardinality({i \in 1..Len(s) : s[i] = x})

\* ------------------------------------------------------- handleVote
\* The messages handleVote passes to showModal (lines 268, 284).
SignInToVote == "You must be signed in to like or dislike."
NotFoundMessage == "Error: Document not found."

\* modal: the message this invocation has shown ("" for none).
IdleCall ==
    [pc |-> "idle", user |-> NoUser, target |-> "none", targetId |-> NoId,
     voteType |-> "none", postId |-> NoId, data |-> NewVoteFields,
     outcome |-> "none", modal |-> ""]

\* The query of line 281: the posts collection, where __name__ == targetId.
DocSnapshotEmpty(targetId) == targetId \notin DOMAIN posts

Liked(d, u) == Includes(d.likers, u)
Disliked(d, u) == Includes(d.dislikers, u)

\* Mutant: retracting a vote filters the array but keeps the count.
FirstWriteKeepsCount(d, u, voteType) ==
    IF voteType = "like"
    THEN IF Liked(d, u)
         THEN [likers |-> Filter(d.likers, u), likes |-> d.likes]
         ELSE [likers |-> Append(d.likers, u), likes |-> d.likes + 1]
    ELSE IF Disliked(d, u)
         THEN [dislikers |-> Filter(d.dislikers, u), dislikes |-> d.dislikes]
         ELSE [dislikers |-> Append(d.dislikers, u), dislikes |-> d.dislikes + 1]

\* Mutant: a vote is always added, whether or not the user already voted so.
FirstWriteAlwaysAdds(d, u, voteType) ==
    IF voteType = "like"
    THEN [likers |-> Append(d.likers, u), likes |-> d.likes + 1]
    ELSE [dislikers |-> Append(d.dislikers, u), dislikes |-> d.dislikes + 1]

\* The first updateDoc of each branch (lines 304, 309, 323, 328).
FirstWrite(d, u, voteType) ==
    IF voteType = "like"
    THEN IF Liked(d, u)
         THEN [likers |-> Filter(d.likers, u), likes |-> d.likes - 1]
         ELSE [likers |-> Append(d.likers, u), likes |-> d.likes + 1]
    ELSE IF Disliked(d, u)
         THEN [dislikers |-> Filter(d.dislikers, u), dislikes |-> d.dislikes - 1]
         ELSE [dislikers |-> Append(d.dislikers, u), dislikes |-> d.dislikes + 1]

\* Mutant: the opposite vote is never retracted.
NeedsSecondNever(d, u, voteType) == FALSE

\* Whether the branch goes on to retract the opposite vote (lines 312, 331).
NeedsSecond(d, u, voteType) ==
    IF voteType = "like"
    THEN ~Liked(d, u) /\ Disliked(d, u)
    ELSE ~Disliked(d, u) /\ Liked(d, u)

\* Mutant: the opposite vote leaves the array but not the count.
SecondWriteKeepsCount(d, u, voteType) ==
    IF voteType = "like"
    THEN [dislikers |-> Filter(d.dislikers, u), dislikes |-> d.dislikes]
    ELSE [likers |-> Filter(d.likers, u), likes |-> d.likes]

\* The second updateDoc (lines 315, 334).
SecondWrite(d, u, voteType) ==
    IF voteType = "like"
    THEN [dislikers |-> Filter(d.dislikers, u), dislikes |-> d.dislikes - 1]
    ELSE [likers |-> Filter(d.likers, u), likes |-> d.likes - 1]

\* The document `ref` names (lines 272-274) exists in the store.
CommentIndex(pid, cid) ==
    IF pid \in AllPostIds
    THEN {i \in 1..Len(comments[pid]) : comments[pid][i].id = cid}
    ELSE {}

RefExists(c) ==
    IF c.target = "post"
    THEN c.targetId \in DOMAIN posts
    ELSE CommentIndex(c.postId, c.targetId) # {}

\* updateDoc(ref, fields) on an existing document.
PostsAfterUpdate(c, fields) ==
    IF c.target = "post"
    THEN [posts EXCEPT ![c.targetId] = Merge(@, fields)]
    ELSE posts

CommentsAfterUpdate(c, fields) ==
    IF c.target = "post"
    THEN comments
    ELSE [comments EXCEPT ![c.postId] =
            [i \in 1..Len(@) |->
                IF @[i].id = c.targetId THEN Merge(@[i], fields) ELSE @[i]]]

\* Lines 266-288: the guard, the read, the not-found return.
VoteRead(s, u, target, targetId, voteType, postId) ==
    /\ call[s].pc = "idle"
    /\ call' = [call EXCEPT ![s] =
         IF u = NoUser
         THEN [IdleCall EXCEPT !.pc = "done", !.outcome = "unauth",
                               !.modal = SignInToVote]
         ELSE LET base == [IdleCall EXCEPT !.user = u, !.target = target,
                              !.targetId = targetId, !.voteType = voteType,
                              !.postId = postId]
              IN IF DocSnapshotEmpty(targetId)
                 THEN [base EXCEPT !.pc = "done", !.outcome = "notfound",
                                   !.modal = NotFoundMessage]
                 ELSE [base EXCEPT !.pc = "w1",
                                   !.data = VoteFields(posts[targetId])]]
    /\ UNCHANGED <<posts, comments, nextPost, nextComment, uiPosts, subs, postOrder>>

\* Mutant: the update is computed from the document as it is at the write (a
\* transaction), not from the snapshot read earlier.
VoteWrite1Fresh(s, ok) ==
    LET c == call[s] IN
    /\ c.pc = "w1"
    /\ IF ok /\ RefExists(c)
       THEN LET now == IF c.target = "post" THEN VoteFields(posts[c.targetId])
                       ELSE c.data
                fields == FirstWrite(now, c.user, c.voteType) IN
            /\ posts' = PostsAfterUpdate(c, fields)
            /\ comments' = CommentsAfterUpdate(c, fields)
            /\ call' = [call EXCEPT ![s] =
                 IF NeedsSecond(now, c.user, c.voteType)
                 THEN [c EXCEPT !.pc = "w2"]
                 ELSE [c EXCEPT !.pc = "done", !.outcome = "ok"]]
       ELSE /\ call' = [call EXCEPT ![s] =
                          [c EXCEPT !.pc = "done", !.outcome = "failed"]]
            /\ UNCHANGED <<posts, comments>>
    /\ UNCHANGED <<nextPost, nextComment, uiPosts, subs, postOrder>>

\* The first await updateDoc; `ok` is whether the store accepts the write.
VoteWrite1(s, ok) ==
    LET c == call[s] IN
    /\ c.pc = "w1"
    /\ IF ok /\ RefExists(c)
       THEN LET fields == FirstWrite(c.data, c.user, c.voteType) IN
            /\ posts' = PostsAfterUpdate(c, fields)
            /\ comments' = CommentsAfterUpdate(c, fields)
            /\ call' = [call EXCEPT ![s] =
                 IF NeedsSecond(c.data, c.user, c.voteType)
                 THEN [c EXCEPT !.pc = "w2"]
                 ELSE [c EXCEPT !.pc = "done", !.outcome = "ok"]]
       ELSE /\ call' = [call EXCEPT ![s] =
                          [c EXCEPT !.pc = "done", !.outcome = "failed"]]
            /\ UNCHANGED <<posts, comments>>
    /\ UNCHANGED <<nextPost, nextComment, uiPosts, subs, postOrder>>

\* The second await updateDoc, retracting the opposite vote.
VoteWrite2(s, ok) ==
    LET c == call[s] IN
    /\ c.pc = "w2"
    /\ IF ok /\ RefExists(c)
       THEN LET fields == SecondWrite(c.data, c.user, c.voteType) IN
            /\ posts' = PostsAfterUpdate(c, fields)
            /\ comments' = CommentsAfterUpdate(c, fields)
            /\ call' = [call EXCEPT ![s] =
                          [c EXCEPT !.pc = "done", !.outcome = "ok"]]
       ELSE /\ call' = [call EXCEPT ![s] =
                          [c EXCEPT !.pc = "done", !.outcome = "failed"]]
            /\ UNCHANGED <<posts, comments>>
    /\ UNCHANGED <<nextPost, nextComment, uiPosts, subs, postOrder>>

\* The handler's promise settles; the slot is free for the next click.
VoteReturn(s) ==
    /\ call[s].pc = "done"
    /\ call' = [call EXCEPT ![s] = IdleCall]
    /\ UNCHANGED <<posts, comments, nextPost, nextComment, uiPosts, subs, postOrder>>

\* ------------------------------------------------------- posts
InsertAt(s, i, x) == SubSeq(s, 1, i - 1) \o <<x>> \o SubSeq(s, i, Len(s))

\* handlePostSubmit with a signed-in user and non-blank content: addDoc with
\* zeroed vote fields. The new id sorts anywhere among the existing ids.
PostSubmit(u, t, pos, limit) ==
    /\ u # NoUser
    /\ nextPost <= limit
    /\ pos \in 1..(Len(postOrder) + 1)
    /\ posts' = posts @@ (PostId(nextPost) :> NewPost(u, t))
    /\ postOrder' = InsertAt(postOrder, pos, PostId(nextPost))
    /\ nextPost' = nextPost + 1
    /\ UNCHANGED <<comments, nextComment, call, uiPosts, subs>>

\* handlePostDelete: deleteDoc of the post (its comments stay in the store).
PostDelete(u, id) ==
    /\ u # NoUser
    /\ id \in DOMAIN posts
    /\ posts' = [x \in DOMAIN posts \ {id} |-> posts[x]]
    /\ postOrder' = Filter(postOrder, id)
    /\ UNCHANGED <<comments, nextPost, nextComment, call, uiPosts, subs>>

\* ------------------------------------------------------- comments
\* handleCommentSubmit with non-blank content: addDoc under posts/{postId}.
CommentSubmit(u, pid, parent, pos, limit) ==
    /\ u # NoUser
    /\ nextComment <= limit
    /\ pid \in AllPostIds
    /\ pos \in 1..(Len(comments[pid]) + 1)
    /\ comments' = [comments EXCEPT ![pid] =
                      InsertAt(@, pos, NewComment(CommentId(nextComment), u, parent))]
    /\ nextComment' = nextComment + 1
    /\ UNCHANGED <<posts, nextPost, call, uiPosts, subs, postOrder>>

\* handleCommentDelete: deleteDoc of the comment (its replies stay).
CommentDelete(u, pid, cid) ==
    /\ u # NoUser
    /\ CommentIndex(pid, cid) # {}
    /\ comments' = [comments EXCEPT ![pid] = SelectSeq(@, LAMBDA c : c.id # cid)]
    /\ UNCHANGED <<posts, nextPost, nextComment, call, uiPosts, subs, postOrder>>

\* ------------------------------------------------------- listeners
\* { ...c, replies }
WithReplies(c, r) ==
    [k \in DOMAIN c \cup {"replies"} |-> IF k = "replies" THEN r ELSE c[k]]

\* Mutant: every reply is attached to every top-level comment.
BuildForestAllReplies(commentsData) ==
    LET sortedComments == SelectSeq(commentsData, LAMBDA c : c.parentCommentId = Null)
    IN [i \in 1..Len(sortedComments) |->
          WithReplies(sortedComments[i],
                      SelectSeq(commentsData, LAMBDA c : c.parentCommentId # Null))]

\* Mutant: a comment whose parent is not in the collection counts as top-level.
BuildForestOrphansOnTop(commentsData) ==
    LET ids == {commentsData[i].id : i \in 1..Len(commentsData)}
        sortedComments == SelectSeq(commentsData,
                              LAMBDA c : c.parentCommentId \notin ids)
    IN [i \in 1..Len(sortedComments) |->
          WithReplies(sortedComments[i],
                      SelectSeq(commentsData,
                                LAMBDA c : c.parentCommentId = sortedComments[i].id))]

\* Lines 190-193: the top-level comments, each with its direct replies.
BuildForest(commentsData) ==
    LET sortedComments == SelectSeq(commentsData, LAMBDA c : c.parentCommentId = Null)
    IN [i \in 1..Len(sortedComments) |->
          WithReplies(sortedComments[i],
                      SelectSeq(commentsData,
                                LAMBDA c : c.parentCommentId = sortedComments[i].id))]

\* { ...p, comments: sortedComments }
WithComments(p, f) ==
    [k \in DOMAIN p \cup {"comments"} |-> IF k = "comments" THEN f ELSE p[k]]

\* Array.prototype.sort with (a, b) => b.createdAt - a.createdAt: stable,
\* newest first.
RECURSIVE InsertByCreatedAt(_, _)
InsertByCreatedAt(sorted, x) ==
    IF sorted = <<>> THEN <<x>>
    ELSE IF Head(sorted).createdAt >= x.createdAt
         THEN <<Head(sorted)>> \o InsertByCreatedAt(Tail(sorted), x)
         ELSE <<x>> \o sorted

\* Mutant: the list is left in the order of the snapshot.
SortPostsKeepsOrder(s) == s

RECURSIVE SortPosts(_)
SortPosts(s) ==
    IF s = <<>> THEN <<>>
    ELSE InsertByCreatedAt(SortPosts(SubSeq(s, 1, Len(s) - 1)), s[Len(s)])

\* { id: doc.id, ...doc.data() }
PostEntry(id) ==
    [k \in DOMAIN posts[id] \cup {"id"} |-> IF k = "id" THEN id ELSE posts[id][k]]

\* No notification is waiting for any listener.
NoPending == [posts |-> FALSE, comments |-> [id \in AllPostIds |-> FALSE]]

\* The store notifies a listener when its collection changes: the open posts
\* listener of a change of posts, the comments listeners of a post of a change
\* of its comments. A notification not yet delivered stays.
Notified ==
    [posts |-> pending.posts \/ (postsListener = "open" /\ posts' # posts),
     comments |-> [id \in AllPostIds |->
                      \/ pending.comments[id]
                      \/ subs[id] > 0 /\ comments'[id] # comments[id]]]

\* Mutant: the posts listener opens no comments listener.
PostsSnapshotNoListeners ==
    /\ postsListener = "open"
    /\ pending.posts
    /\ pending' = [pending EXCEPT !.posts = FALSE]
    /\ uiPosts' = SortPosts([i \in 1..Len(postOrder) |-> PostEntry(postOrder[i])])
    /\ UNCHANGED <<posts, comments, nextPost, nextComment, call, subs, postOrder>>

\* Lines 179-202: the posts listener. Every document of the snapshot gets a
\* new comments listener (none is ever unsubscribed), which the store will
\* call with the collection as it is, and the displayed list is replaced by
\* the sorted documents.
PostsSnapshot ==
    /\ postsListener = "open"
    /\ pending.posts
    /\ \A i \in 1..Len(postOrder) : subs[postOrder[i]] < MaxSubs
    /\ pending' = [posts |-> FALSE,
                   comments |-> [id \in AllPostIds |->
                                   Includes(postOrder, id) \/ pending.comments[id]]]
    /\ subs' = [id \in AllPostIds |->
                  IF Includes(postOrder, id) THEN subs[id] + 1 ELSE subs[id]]
    /\ uiPosts' = SortPosts([i \in 1..Len(postOrder) |-> PostEntry(postOrder[i])])
    /\ UNCHANGED <<posts, comments, nextPost, nextComment, call, postOrder>>

\* Lines 175-178: the effect runs once auth is ready and subscribes to the
\* posts collection.
Mount ==
    /\ isAuthReady
    /\ postsListener = "none"
    /\ postsListener' = "open"
    /\ pending' = [pending EXCEPT !.posts = TRUE]
    /\ UNCHANGED <<posts, comments, nextPost, nextComment, call, uiPosts, subs,
                   postOrder>>

\* Line 208: the effect's cleanup unsubscribes the posts listener, and only it.
Unmount ==
    /\ postsListener = "open"
    /\ postsListener' = "closed"
    /\ pending' = [pending EXCEPT !.posts = FALSE]
    /\ UNCHANGED <<posts, comments, nextPost, nextComment, call, uiPosts, subs,
                   postOrder>>

\* Lines 184-199: a comments listener of post pid fires with the collection.
\* Mutant: the forest is set on every displayed post, whatever its id.
CommentsSnapshotEveryPost(pid) ==
    /\ subs[pid] > 0
    /\ pending.comments[pid]
    /\ pending' = [pending EXCEPT !.comments[pid] = FALSE]
    /\ uiPosts' = SortPosts([i \in 1..Len(uiPosts) |->
                     WithComments(uiPosts[i], BuildForest(comments[pid]))])
    /\ UNCHANGED <<posts, comments, nextPost, nextComment, call, subs, postOrder>>

CommentsSnapshot(pid) ==
    /\ subs[pid] > 0
    /\ pending.comments[pid]
    /\ pending' = [pending EXCEPT !.comments[pid] = FALSE]
    /\ uiPosts' = SortPosts([i \in 1..Len(uiPosts) |->
                     IF uiPosts[i].id = pid
                     THEN WithComments(uiPosts[i], BuildForest(comments[pid]))
                     ELSE uiPosts[i]])
    /\ UNCHANGED <<posts, comments, nextPost, nextComment, call, subs, postOrder>>

\* renderComment (lines 391-434): the comment, then its replies if it has any.
RECURSIVE RenderComment(_), RenderAll(_)
RenderComment(c) ==
    <<c.id>> \o (IF "replies" \in DOMAIN c THEN RenderAll(c.replies) ELSE <<>>)

RenderAll(s) ==
    IF s = <<>> THEN <<>> ELSE RenderComment(Head(s)) \o RenderAll(Tail(s))

\* CommentSection (line 448): comments && comments.map(renderComment)
CommentSection(p) ==
    IF "comments" \in DOMAIN p THEN RenderAll(p.comments) ELSE <<>>

\* ------------------------------------------------------- auth
IdleAuth == [pc |-> "idle", currentUser |-> NoUser]

\* The last handler the watching client invoked: which, the user state it
\* saw, and how far it got ("returned" at its guard, "awaiting" a store call,
\* "done", or "rejected" by the store).
NoCall == [handler |-> "none", user |-> NoUser, outcome |-> "none"]

Called(handler, outcome) ==
    [handler |-> handler, user |-> user, outcome |-> outcome]

\* The messages of the auth handlers (lines 97, 105, 127, 144).
GoogleSignInFailed == "Failed to sign in with Google. Check the console for details."
SignedOutMessage == "You have been signed out."
BannedMessage == "Your account has been banned. You have been signed out."
FetchErrorMessage == "Error fetching user data. Please try again."

\* The users document both handlers create (lines 87-92, 134-139).
NewUserDoc == [isBanned |-> FALSE]

\* Lines 147-151: the callback of a signed-out notification.
AuthNotifyNull ==
    /\ authUser = NoUser
    /\ user' = NoUser
    /\ isAuthReady' = TRUE
    /\ UNCHANGED <<modalMessage, authUser, authCalls, userDocs>>

\* The callbacks are interchangeable: a notification takes the first free slot.
FreeAuthSlot(x) ==
    /\ authCalls[x].pc = "idle"
    /\ x = "x" \/ authCalls["x"].pc # "idle"

\* Lines 116-122: auth signs u in (popup, custom token or anonymous) and
\* notifies; the callback starts the lookup of u's record and suspends.
AuthNotify(x, u) ==
    /\ u # NoUser
    /\ authUser # u
    /\ FreeAuthSlot(x)
    /\ authUser' = u
    /\ authCalls' = [authCalls EXCEPT ![x] = [pc |-> "lookup", currentUser |-> u]]
    /\ UNCHANGED <<user, isAuthReady, modalMessage, userDocs>>

\* Lines 142-146 and 150-151: a rejected await lands in the catch.
AuthCaught(x) ==
    /\ modalMessage' = FetchErrorMessage
    /\ user' = NoUser
    /\ isAuthReady' = TRUE
    /\ authCalls' = [authCalls EXCEPT ![x] = IdleAuth]

\* Mutant: the record's isBanned is not looked at.
AuthLookupIgnoresBan(x, ok) ==
    LET u == authCalls[x].currentUser IN
    /\ authCalls[x].pc = "lookup"
    /\ IF ~ok
       THEN AuthCaught(x) /\ UNCHANGED <<authUser, userDocs>>
       ELSE IF u \notin DOMAIN userDocs
       THEN /\ authCalls' = [authCalls EXCEPT ![x].pc = "create"]
            /\ UNCHANGED <<user, isAuthReady, modalMessage, authUser, userDocs>>
       ELSE /\ user' = u
            /\ isAuthReady' = TRUE
            /\ authCalls' = [authCalls EXCEPT ![x] = IdleAuth]
            /\ UNCHANGED <<modalMessage, authUser, userDocs>>

\* Lines 122-132: getDocs settles. A record that is banned leads to signOut, a
\* record that is not to setUser, no record to setDoc.
AuthLookup(x, ok) ==
    LET u == authCalls[x].currentUser IN
    /\ authCalls[x].pc = "lookup"
    /\ IF ~ok
       THEN AuthCaught(x) /\ UNCHANGED <<authUser, userDocs>>
       ELSE IF u \notin DOMAIN userDocs
       THEN /\ authCalls' = [authCalls EXCEPT ![x].pc = "create"]
            /\ UNCHANGED <<user, isAuthReady, modalMessage, authUser, userDocs>>
       ELSE IF userDocs[u].isBanned
       THEN /\ authCalls' = [authCalls EXCEPT ![x].pc = "signout"]
            /\ UNCHANGED <<user, isAuthReady, modalMessage, authUser, userDocs>>
       ELSE /\ user' = u
            /\ isAuthReady' = TRUE
            /\ authCalls' = [authCalls EXCEPT ![x] = IdleAuth]
            /\ UNCHANGED <<modalMessage, authUser, userDocs>>

\* Lines 126-128: signOut(auth) settles (auth is signed out, whoever was
\* signed in, and its signed-out notification sets user to null), then the
\* banned message and setUser(null).
AuthSignOut(x, ok) ==
    /\ authCalls[x].pc = "signout"
    /\ IF ok
       THEN /\ authUser' = NoUser
            /\ modalMessage' = BannedMessage
            /\ user' = NoUser
            /\ isAuthReady' = TRUE
            /\ authCalls' = [authCalls EXCEPT ![x] = IdleAuth]
       ELSE AuthCaught(x) /\ UNCHANGED authUser
    /\ UNCHANGED userDocs

\* Lines 134-140: setDoc settles (the new record replaces any record of that
\* uid), then setUser(currentUser).
AuthCreate(x, ok) ==
    LET u == authCalls[x].currentUser IN
    /\ authCalls[x].pc = "create"
    /\ IF ok
       THEN /\ userDocs' = [k \in DOMAIN userDocs \cup {u} |->
                               IF k = u THEN NewUserDoc ELSE userDocs[k]]
            /\ user' = u
            /\ isAuthReady' = TRUE
            /\ authCalls' = [authCalls EXCEPT ![x] = IdleAuth]
            /\ UNCHANGED modalMessage
       ELSE AuthCaught(x) /\ UNCHANGED userDocs
    /\ UNCHANGED authUser

\* handleSignOut (lines 101-107), behind the button shown to a signed-in user:
\* signOut, whose notification sets user to null, setUser(null), the message.
HandleSignOut ==
    /\ user # NoUser
    /\ authUser' = NoUser
    /\ user' = NoUser
    /\ isAuthReady' = TRUE
    /\ modalMessage' = SignedOutMessage
    /\ UNCHANGED <<authCalls, userDocs>>

\* handleGoogleSignIn after its popup (lines 84-98): the record of the
\* signed-in user is created if the collection has none; a rejection is caught.
GoogleSignInRecord(u, ok) ==
    /\ u # NoUser /\ authUser = u
    /\ IF ~ok
       THEN modalMessage' = GoogleSignInFailed /\ UNCHANGED userDocs
       ELSE /\ userDocs' = IF u \in DOMAIN userDocs THEN userDocs
                           ELSE [k \in DOMAIN userDocs \cup {u} |->
                                   IF k = u THEN NewUserDoc ELSE userDocs[k]]
            /\ UNCHANGED modalMessage
    /\ UNCHANGED <<user, isAuthReady, authUser, authCalls>>

\* closeModal (lines 61-64).
CloseModal ==
    /\ modalMessage # ""
    /\ modalMessage' = ""
    /\ UNCHANGED <<user, isAuthReady, authUser, authCalls, userDocs>>

\* An administrator bans a user (the app only ever reads isBanned).
Ban(u) ==
    /\ u \in DOMAIN userDocs
    /\ ~userDocs[u].isBanned
    /\ userDocs' = [userDocs EXCEPT ![u].isBanned = TRUE]
    /\ UNCHANGED <<user, isAuthReady, modalMessage, authUser, authCalls>>

\* ------------------------------------------------------- the handlers, whole
\* The message of handlePostSubmit (line 215).
PleaseWrite == "Please write something to post."

\* handlePostSubmit (lines 212-230) as the watching client runs it: the guard
\* on the user state and the content, then addDoc, which the store may reject;
\* nothing catches the rejection.
HandlePostSubmit(blank, ok, limit) ==
    /\ IF user = NoUser \/ blank
       THEN /\ modalMessage' = PleaseWrite
            /\ UNCHANGED <<posts, comments, nextPost, nextComment, call,
                           uiPosts, subs, postOrder>>
       ELSE IF ok
       THEN PostSubmit(user, 1, Len(postOrder) + 1, limit) /\ UNCHANGED modalMessage
       ELSE UNCHANGED <<posts, comments, nextPost, nextComment, call, uiPosts,
                        subs, postOrder, modalMessage>>
    /\ lastCall' = Called("handlePostSubmit",
                          IF user = NoUser \/ blank THEN "returned"
                          ELSE IF ok THEN "done" ELSE "rejected")

\* handlePostDelete (lines 232-236) of a post in the store.
HandlePostDelete(id, ok) ==
    /\ id \in DOMAIN posts
    /\ IF user # NoUser /\ ok
       THEN PostDelete(user, id)
       ELSE UNCHANGED <<posts, comments, nextPost, nextComment, call, uiPosts,
                        subs, postOrder>>
    /\ UNCHANGED modalMessage
    /\ lastCall' = Called("handlePostDelete",
                          IF user = NoUser THEN "returned"
                          ELSE IF ok THEN "done" ELSE "rejected")

\* handleCommentSubmit (lines 238-257).
HandleCommentSubmit(pid, parent, blank, ok, limit) ==
    /\ IF user # NoUser /\ ~blank /\ ok
       THEN CommentSubmit(user, pid, parent, Len(comments[pid]) + 1, limit)
       ELSE UNCHANGED <<posts, comments, nextPost, nextComment, call, uiPosts,
                        subs, postOrder>>
    /\ UNCHANGED modalMessage
    /\ lastCall' = Called("handleCommentSubmit",
                          IF user = NoUser \/ blank THEN "returned"
                          ELSE IF ok THEN "done" ELSE "rejected")

\* Mutant: the delete goes to the store whatever the user state.
HandleCommentDeleteUnguarded(pid, cid, ok) ==
    /\ CommentIndex(pid, cid) # {}
    /\ comments' = IF ok
                   THEN [comments EXCEPT ![pid] = SelectSeq(@, LAMBDA c : c.id # cid)]
                   ELSE comments
    /\ UNCHANGED <<posts, nextPost, nextComment, call, uiPosts, subs, postOrder>>
    /\ UNCHANGED modalMessage
    /\ lastCall' = Called("handleCommentDelete",
                          IF user = NoUser THEN "returned"
                          ELSE IF ok THEN "done" ELSE "rejected")

\* handleCommentDelete (lines 259-263) of a comment in the store.
HandleCommentDelete(pid, cid, ok) ==
    /\ CommentIndex(pid, cid) # {}
    /\ IF user # NoUser /\ ok
       THEN CommentDelete(user, pid, cid)
       ELSE UNCHANGED <<posts, comments, nextPost, nextComment, call, uiPosts,
                        subs, postOrder>>
    /\ UNCHANGED modalMessage
    /\ lastCall' = Called("handleCommentDelete",
                          IF user = NoUser THEN "returned"
                          ELSE IF ok THEN "done" ELSE "rejected")

\* handleVote (lines 266-297) as the watching client starts it, with its user
\* state; what it shows goes to the client's message box.
HandleVote(s, target, targetId, voteType, postId) ==
    /\ VoteRead(s, user, target, targetId, voteType, postId)
    /\ modalMessage' = IF call'[s].modal # "" THEN call'[s].modal ELSE modalMessage
    /\ lastCall' = Called("handleVote",
                          IF call'[s].pc = "done" THEN "returned" ELSE "awaiting")

\* ------------------------------------------------------- specifications
Init ==
    /\ posts = <<>>
    /\ comments = [id \in AllPostIds |-> <<>>]
    /\ nextPost = 1
    /\ nextComment = 1
    /\ call = [s \in Calls |-> IdleCall]
    /\ uiPosts = <<>>
    /\ subs = [id \in AllPostIds |-> 0]
    /\ postOrder = <<>>
    /\ raced = [s \in Calls |-> {}]
    /\ hist = <<>>
    /\ lastSnapshot = [pid |-> NoId, docs |-> <<>>]
    /\ clicks = 0
    /\ user = NoUser
    /\ isAuthReady = FALSE
    /\ modalMessage = ""
    /\ authUser = NoUser
    /\ authCalls = [s \in AuthSlots |-> IdleAuth]
    /\ userDocs = <<>>
    /\ postsListener = "none"
    /\ pending = NoPending
    /\ lastCall = NoCall

\* The posts a client may have on display: the store never reuses an id.
EverPosted == {PostId(n) : n \in 1..(nextPost - 1)}

\* A reply names a comment of the same post; a top-level comment names none.
Parents(pid) == {Null} \cup {comments[pid][i].id : i \in 1..Len(comments[pid])}

\* A call of handleVote by any client, for a vote type of `types`, on a post
\* ever displayed or on a comment in the store with its post.
VoteCall(s, limit, types) ==
    /\ clicks < limit
    /\ clicks' = clicks + 1
    /\ \E u \in Users \cup {NoUser}, voteType \in types :
        \/ \E n \in 1..(nextPost - 1) :
              VoteRead(s, u, "post", PostId(n), voteType, NoId)
        \/ \E pid \in AllPostIds : \E i \in 1..Len(comments[pid]) :
              VoteRead(s, u, "comment", comments[pid][i].id, voteType, pid)

\* What the vote buttons pass.
VoteClick(s, limit) == VoteCall(s, limit, VoteTypes)

\* The slots are interchangeable: a click takes the first free one.
FreeSlot(s) ==
    /\ call[s].pc = "idle"
    /\ s = "a" \/ call["a"].pc # "idle"

\* The store as the voters see it change: posts come and go, a post gets its
\* first comment. handleVote reads neither the author nor the creation time of a
\* document nor the order of the collection, so one author, one clock reading
\* and one place in the collection stand for all.
Author == "u1"
VotedPostSubmit == PostSubmit(Author, 1, Len(postOrder) + 1, MaxRunPosts)
VotedPostDelete == \E id \in AllPostIds : PostDelete(Author, id)
FirstCommentSubmit ==
    \E pid \in DOMAIN posts :
        comments[pid] = <<>> /\ CommentSubmit(Author, pid, Null, 1, MaxComments)

\* raced[s]: the slots whose current call had an updateDoc land on the same
\* document while the call in slot s was between its read and its last write.
RacedNext ==
    [s \in Calls |->
        IF call'[s].pc = "idle" \/ call[s].pc = "idle" THEN {}
        ELSE {o \in Calls \ {s} :
                /\ call'[o].pc # "idle"
                /\ \/ o \in raced[s]
                   \/ /\ call[s].pc \in {"w1", "w2"}
                      /\ call[o].pc \in {"w1", "w2"}
                      /\ call'[o] # call[o]
                      /\ call'[o].outcome # "failed"
                      /\ call[o].target = call[s].target
                      /\ call[o].targetId = call[s].targetId}]

\* Any number of clients, handlers interleaving at their awaits.
Concurrent ==
    /\ raced' = RacedNext
    /\ pending' = Notified
    /\ UNCHANGED <<hist, lastSnapshot, clientVars, postsListener, lastCall>>

Next ==
    \/ VotedPostSubmit /\ UNCHANGED clicks /\ Concurrent
    \/ VotedPostDelete /\ UNCHANGED clicks /\ Concurrent
    \/ FirstCommentSubmit /\ UNCHANGED clicks /\ Concurrent
    \/ \E s \in Calls : FreeSlot(s) /\ VoteClick(s, MaxVotes) /\ Concurrent
    \/ \E s \in Calls, ok \in BOOLEAN : VoteWrite1(s, ok) /\ UNCHANGED clicks /\ Concurrent
    \/ \E s \in Calls, ok \in BOOLEAN : VoteWrite2(s, ok) /\ UNCHANGED clicks /\ Concurrent
    \/ \E s \in Calls : VoteReturn(s) /\ UNCHANGED clicks /\ Concurrent

Spec == Init /\ [][Next]_vars

\* ---- One handleVote at a time: a click waits for the previous call to settle.
AllIdle == \A s \in Calls : call[s].pc = "idle"

LastTwo(h) == IF Len(h) > 2 THEN SubSeq(h, Len(h) - 1, Len(h)) ELSE h

\* The record of a vote on a post that ran to its end, with the item as the
\* call read it and as the call left it; a call that threw ends the run of
\* consecutive completed calls.
HistNext ==
    IF \E s \in Calls : call[s].pc = "done" /\ call'[s].pc = "idle"
    THEN LET s == CHOOSE x \in Calls : call[x].pc = "done" /\ call'[x].pc = "idle"
             c == call[s]
         IN IF c.outcome = "ok" /\ c.target = "post" /\ c.targetId \in DOMAIN posts
            THEN LastTwo(Append(hist, [user |-> c.user, voteType |-> c.voteType,
                                       targetId |-> c.targetId, pre |-> c.data,
                                       post |-> VoteFields(posts[c.targetId])]))
            ELSE IF c.outcome = "failed" THEN <<>> ELSE hist
    ELSE hist

Sequential ==
    /\ hist' = HistNext
    /\ pending' = Notified
    /\ UNCHANGED <<raced, lastSnapshot, clientVars, postsListener, lastCall>>

SeqNext ==
    \/ VotedPostSubmit /\ UNCHANGED clicks /\ Sequential
    \/ VotedPostDelete /\ UNCHANGED clicks /\ Sequential
    \/ FirstCommentSubmit /\ UNCHANGED clicks /\ Sequential
    \/ \E s \in Calls : AllIdle /\ FreeSlot(s) /\ VoteClick(s, MaxSeqVotes) /\ Sequential
    \/ \E s \in Calls, ok \in BOOLEAN : VoteWrite1(s, ok) /\ UNCHANGED clicks /\ Sequential
    \/ \E s \in Calls, ok \in BOOLEAN : VoteWrite2(s, ok) /\ UNCHANGED clicks /\ Sequential
    \/ \E s \in Calls : VoteReturn(s) /\ UNCHANGED clicks /\ Sequential

SpecSeq == Init /\ [][SeqNext]_vars

\* ---- handleVote as a function of its arguments: any string as vote type.
AnyVoteTypes == VoteTypes \cup {"love"}

AnyVoteNext ==
    \/ VotedPostSubmit /\ UNCHANGED clicks /\ Sequential
    \/ \E s \in Calls :
          AllIdle /\ FreeSlot(s) /\ VoteCall(s, MaxSeqVotes, AnyVoteTypes) /\ Sequential
    \/ \E s \in Calls, ok \in BOOLEAN : VoteWrite1(s, ok) /\ UNCHANGED clicks /\ Sequential
    \/ \E s \in Calls, ok \in BOOLEAN : VoteWrite2(s, ok) /\ UNCHANGED clicks /\ Sequential
    \/ \E s \in Calls : VoteReturn(s) /\ UNCHANGED clicks /\ Sequential

SpecAnyVote == Init /\ [][AnyVoteNext]_vars

\* ---- Auth: one client signing in and out while its callbacks are in flight.
AuthOnly ==
    UNCHANGED <<posts, comments, nextPost, nextComment, call, uiPosts, subs,
                postOrder, raced, hist, lastSnapshot, clicks, postsListener,
                pending, lastCall>>

AuthNext ==
    \/ AuthNotifyNull /\ AuthOnly
    \/ \E x \in AuthSlots, u \in Users : AuthNotify(x, u) /\ AuthOnly
    \/ \E x \in AuthSlots, ok \in BOOLEAN : AuthLookup(x, ok) /\ AuthOnly
    \/ \E x \in AuthSlots, ok \in BOOLEAN : AuthSignOut(x, ok) /\ AuthOnly
    \/ \E x \in AuthSlots, ok \in BOOLEAN : AuthCreate(x, ok) /\ AuthOnly
    \/ HandleSignOut /\ AuthOnly
    \/ \E u \in Users, ok \in BOOLEAN : GoogleSignInRecord(u, ok) /\ AuthOnly
    \/ CloseModal /\ AuthOnly
    \/ \E u \in Users : Ban(u) /\ AuthOnly

SpecAuth == Init /\ [][AuthNext]_vars

\* ---- The handlers of one client, whose user u1 signs in and out.
Handling ==
    /\ pending' = Notified
    /\ UNCHANGED <<raced, hist, lastSnapshot, clicks, user, isAuthReady,
                   authUser, authCalls, userDocs, postsListener>>

ClientVote ==
    \E s \in Calls, voteType \in VoteTypes :
        /\ AllIdle /\ FreeSlot(s)
        /\ \/ \E n \in 1..(nextPost - 1) :
                 HandleVote(s, "post", PostId(n), voteType, NoId)
           \/ \E pid \in AllPostIds : \E i \in 1..Len(comments[pid]) :
                 HandleVote(s, "comment", comments[pid][i].id, voteType, pid)

ClientNext ==
    \/ AuthNotify("x", Author) /\ AuthOnly
    \/ AuthLookup("x", TRUE) /\ AuthOnly
    \/ AuthCreate("x", TRUE) /\ AuthOnly
    \/ HandleSignOut /\ AuthOnly
    \/ \E blank, ok \in BOOLEAN : HandlePostSubmit(blank, ok, MaxRunPosts) /\ Handling
    \/ \E id \in AllPostIds, ok \in BOOLEAN : HandlePostDelete(id, ok) /\ Handling
    \/ \E pid \in EverPosted, blank, ok \in BOOLEAN :
          HandleCommentSubmit(pid, Null, blank, ok, MaxClientComments) /\ Handling
    \/ \E pid \in AllPostIds, ok \in BOOLEAN : \E i \in 1..Len(comments[pid]) :
          HandleCommentDelete(pid, comments[pid][i].id, ok) /\ Handling
    \/ ClientVote /\ Handling
    \/ \E s \in Calls, ok \in BOOLEAN :
          VoteWrite1(s, ok) /\ UNCHANGED <<modalMessage, lastCall>> /\ Handling
    \/ \E s \in Calls, ok \in BOOLEAN :
          VoteWrite2(s, ok) /\ UNCHANGED <<modalMessage, lastCall>> /\ Handling
    \/ \E s \in Calls :
          VoteReturn(s) /\ UNCHANGED <<modalMessage, lastCall>> /\ Handling

SpecClient == Init /\ [][ClientNext]_vars

\* ---- The listeners: one client watching the posts while their comments change.
NoSnapshot == [pid |-> NoId, docs |-> <<>>]

Listening == UNCHANGED <<raced, hist, clicks, lastCall>>

TreeNext ==
    \/ /\ AuthNotifyNull
       /\ UNCHANGED <<posts, comments, nextPost, nextComment, call, uiPosts,
                      subs, postOrder, postsListener, pending, lastSnapshot>>
       /\ Listening
    \/ Mount /\ UNCHANGED <<clientVars, lastSnapshot>> /\ Listening
    \/ /\ \E pos \in 1..MaxRunPosts : PostSubmit(Author, 1, pos, MaxRunPosts)
       /\ pending' = Notified
       /\ UNCHANGED <<clientVars, postsListener, lastSnapshot>> /\ Listening
    \/ /\ \E pid \in EverPosted : \E parent \in Parents(pid) :
            \E pos \in 1..MaxComments : CommentSubmit(Author, pid, parent, pos, MaxComments)
       /\ pending' = Notified
       /\ UNCHANGED <<clientVars, postsListener, lastSnapshot>> /\ Listening
    \/ /\ \E pid \in AllPostIds : \E i \in 1..Len(comments[pid]) :
            CommentDelete(Author, pid, comments[pid][i].id)
       /\ pending' = Notified
       /\ UNCHANGED <<clientVars, postsListener, lastSnapshot>> /\ Listening
    \/ /\ PostsSnapshot /\ lastSnapshot' = NoSnapshot
       /\ UNCHANGED <<clientVars, postsListener>> /\ Listening
    \/ \E pid \in AllPostIds :
          /\ CommentsSnapshot(pid)
          /\ lastSnapshot' = [pid |-> pid, docs |-> comments[pid]]
          /\ UNCHANGED <<clientVars, postsListener>> /\ Listening

SpecTree == Init /\ [][TreeNext]_vars

\* ---- The displayed list: one client watching while posts come and go and
\* get comments, from its first auth notification to its unmount.
Watching == UNCHANGED <<call, raced, hist, clicks, lastCall>>

FeedAuthReady ==
    /\ AuthNotifyNull
    /\ UNCHANGED <<posts, comments, nextPost, nextComment, uiPosts, subs,
                   postOrder, postsListener, pending, lastSnapshot>>
    /\ Watching

FeedMount == Mount /\ UNCHANGED <<clientVars, lastSnapshot>> /\ Watching

FeedUnmount == Unmount /\ UNCHANGED <<clientVars, lastSnapshot>> /\ Watching

FeedPostSubmit ==
    /\ \E t \in Times : PostSubmit(Author, t, Len(postOrder) + 1, MaxPosts)
    /\ pending' = Notified
    /\ UNCHANGED <<clientVars, postsListener, lastSnapshot>> /\ Watching

FeedPostDelete ==
    /\ \E id \in AllPostIds : PostDelete(Author, id)
    /\ pending' = Notified
    /\ UNCHANGED <<clientVars, postsListener, lastSnapshot>> /\ Watching

FeedCommentSubmit ==
    /\ \E pid \in EverPosted :
          CommentSubmit(Author, pid, Null, Len(comments[pid]) + 1, MaxFeedComments)
    /\ pending' = Notified
    /\ UNCHANGED <<clientVars, postsListener, lastSnapshot>> /\ Watching

DeliverPosts ==
    /\ PostsSnapshot /\ lastSnapshot' = NoSnapshot
    /\ UNCHANGED <<clientVars, postsListener>> /\ Watching

DeliverComments(pid) ==
    /\ CommentsSnapshot(pid)
    /\ lastSnapshot' = [pid |-> pid, docs |-> comments[pid]]
    /\ UNCHANGED <<clientVars, postsListener>> /\ Watching

FeedNext ==
    \/ FeedAuthReady
    \/ FeedMount
    \/ FeedUnmount
    \/ FeedPostSubmit
    \/ FeedPostDelete
    \/ FeedCommentSubmit
    \/ DeliverPosts
    \/ \E pid \in AllPostIds : DeliverComments(pid)

SpecFeed == Init /\ [][FeedNext]_vars

\* ---- The same client, followed until the store is quiet: posts of one
\* clock reading, each with at most MaxLiveComments comments in all.
Settling == UNCHANGED <<clientVars, postsListener, lastSnapshot>> /\ Watching

LivePostSubmit ==
    /\ PostSubmit(Author, 1, Len(postOrder) + 1, MaxPosts)
    /\ pending' = Notified
    /\ Settling

LiveCommentSubmit ==
    /\ \E pid \in EverPosted :
          CommentSubmit(Author, pid, Null, Len(comments[pid]) + 1, MaxLiveComments)
    /\ pending' = Notified
    /\ Settling

LiveCommentDelete ==
    /\ \E pid \in AllPostIds : \E i \in 1..Len(comments[pid]) :
          CommentDelete(Author, pid, comments[pid][i].id)
    /\ pending' = Notified
    /\ Settling

LiveDeliverPosts == PostsSnapshot /\ Settling

LiveDeliverComments(pid) == CommentsSnapshot(pid) /\ Settling

LiveNext ==
    \/ FeedAuthReady
    \/ FeedMount
    \/ FeedUnmount
    \/ LivePostSubmit
    \/ LiveCommentDelete
    \/ LiveCommentSubmit
    \/ LiveDeliverPosts
    \/ \E pid \in AllPostIds : LiveDeliverComments(pid)

\* The store delivers every notification it owes a listener.
SpecFeedLive ==
    /\ Init /\ [][LiveNext]_vars
    /\ WF_vars(LiveDeliverPosts)
    /\ WF_vars(\E pid \in AllPostIds : LiveDeliverComments(pid))

\* ------------------------------------------------------- properties
DoneOk(s) == call[s].pc = "done" /\ call[s].outcome = "ok"

\* Every votable document of the store: the posts and the comments.
Items ==
    {VoteFields(posts[id]) : id \in DOMAIN posts} \cup
    UNION {{VoteFields(comments[pid][i]) : i \in 1..Len(comments[pid])} :
              pid \in AllPostIds}

\* Slots a and b hold completed likes of one post by two users, both computed
\* from a snapshot with no likes, and a's write landed between b's read and
\* b's write.
RacedLikes(a, b) ==
    /\ a # b
    /\ DoneOk(a) /\ DoneOk(b)
    /\ call[a].target = "post" /\ call[b].target = "post"
    /\ call[a].targetId = call[b].targetId
    /\ call[a].targetId \in DOMAIN posts
    /\ call[a].user # call[b].user
    /\ call[a].voteType = "like" /\ call[b].voteType = "like"
    /\ call[a].data.likes = 0 /\ call[a].data.likers = <<>>
    /\ call[b].data.likes = 0 /\ call[b].data.likers = <<>>
    /\ a \in raced[b]

\* C1: two users like the same post, both reading likes = 0 and no likers
\* before either writes: once both writes are done the stored count is 1, not
\* 2, and only one of the two is among the likers.
C1_LostUpdate ==
    \A a, b \in Calls :
        RacedLikes(a, b) =>
            /\ posts[call[a].targetId].likes = 1
            /\ posts[call[a].targetId].likers \in {<<call[a].user>>, <<call[b].user>>}

C1_Witness == \E a, b \in Calls : RacedLikes(a, b)

\* C2: no user id is in both likers and dislikers of an item, in any state of
\* the store.
C2_MutualExclusion ==
    \A d \in Items : \A u \in Users : ~(Liked(d, u) /\ Disliked(d, u))

\* C3: for every item of the store, under any interleaving of handleVote
\* calls, likes is the number of likers, dislikes the number of dislikers, and
\* neither is negative.
C3_CountsMatchVoters ==
    \A d \in Items :
        /\ d.likes = Len(d.likers)
        /\ d.dislikes = Len(d.dislikers)
        /\ d.likes >= 0
        /\ d.dislikes >= 0

\* Two calls raced on a post and its counts moved.
C3_Witness ==
    \E s \in Calls :
        /\ DoneOk(s) /\ raced[s] # {}
        /\ call[s].target = "post"
        /\ call[s].targetId \in DOMAIN posts
        /\ posts[call[s].targetId].likes + posts[call[s].targetId].dislikes >= 2

\* The item as a call that switches a vote leaves it when both writes land.
AfterBothWrites(c) ==
    Merge(Merge(c.data, FirstWrite(c.data, c.user, c.voteType)),
          SecondWrite(c.data, c.user, c.voteType))

\* C4: a handleVote call that switches a vote and has a store write fail
\* leaves the item entirely as it was before the call or entirely as the
\* completed call would leave it.
C4_AtomicSwitch ==
    \A s \in Calls :
        LET c == call[s] IN
        (/\ c.pc = "done" /\ c.outcome = "failed"
         /\ c.target = "post" /\ c.targetId \in DOMAIN posts
         /\ NeedsSecond(c.data, c.user, c.voteType))
        => \/ VoteFields(posts[c.targetId]) = c.data
           \/ VoteFields(posts[c.targetId]) = AfterBothWrites(c)

\* The same voters and the same counts (likers and dislikers are sets of user
\* ids kept in arrays).
SameVotes(x, y) ==
    /\ x.likes = y.likes
    /\ x.dislikes = y.dislikes
    /\ ElemsOf(x.likers) = ElemsOf(y.likers)
    /\ ElemsOf(x.dislikers) = ElemsOf(y.dislikers)

\* The last two completed calls are the same vote by the same user on the
\* same post, the second starting from what the first left.
TwoSameVotes ==
    /\ Len(hist) = 2
    /\ hist[1].user = hist[2].user
    /\ hist[1].voteType = hist[2].voteType
    /\ hist[1].targetId = hist[2].targetId
    /\ hist[2].pre = hist[1].post

InOpposite(d, u, voteType) ==
    IF voteType = "like" THEN Disliked(d, u) ELSE Liked(d, u)

Switched(h, to) ==
    /\ h.voteType = to
    /\ IF to = "dislike"
       THEN Liked(h.pre, h.user) /\ ~Disliked(h.pre, h.user)
       ELSE Disliked(h.pre, h.user) /\ ~Liked(h.pre, h.user)

OthersKept(h) ==
    \A v \in Users \ {h.user} :
        /\ Liked(h.post, v) <=> Liked(h.pre, v)
        /\ Disliked(h.post, v) <=> Disliked(h.pre, v)

\* C6: a completed dislike by a user who was in likers only leaves the user in
\* dislikers only, likes one lower, dislikes one higher, and every other
\* user's membership as it was; and the same with like and dislike exchanged.
C6_SwitchingLaw ==
    \A i \in 1..Len(hist) :
        LET h == hist[i] IN
        /\ Switched(h, "dislike") =>
              /\ Disliked(h.post, h.user) /\ ~Liked(h.post, h.user)
              /\ h.post.likes = h.pre.likes - 1
              /\ h.post.dislikes = h.pre.dislikes + 1
              /\ OthersKept(h)
        /\ Switched(h, "like") =>
              /\ Liked(h.post, h.user) /\ ~Disliked(h.post, h.user)
              /\ h.post.dislikes = h.pre.dislikes - 1
              /\ h.post.likes = h.pre.likes + 1
              /\ OthersKept(h)

\* A switch in each direction, one of them with another user's vote present.
C6_Witness ==
    /\ Len(hist) = 2
    /\ Switched(hist[1], "like")
    /\ Switched(hist[2], "dislike")

\* C7: when calls run one after the other, after each completed call its user
\* is at most once in likers and dislikers together.
C7_OneVotePerUser ==
    \A s \in Calls :
        LET c == call[s] IN
        (DoneOk(s) /\ c.target = "post" /\ c.targetId \in DOMAIN posts)
        => Occurrences(posts[c.targetId].likers, c.user)
             + Occurrences(posts[c.targetId].dislikers, c.user) <= 1

\* A call that found its user in the opposite set has completed.
C7_Witness ==
    \E s \in Calls :
        /\ DoneOk(s) /\ call[s].target = "post"
        /\ call[s].targetId \in DOMAIN posts
        /\ InOpposite(call[s].data, call[s].user, call[s].voteType)
        /\ Liked(posts[call[s].targetId], call[s].user)

\* C8: a vote on a comment that is in the store under its post does not end
\* in the not-found outcome.
C8_CommentVoteFound ==
    [][\A s \in Calls :
          (/\ call[s].pc = "idle"
           /\ call'[s].pc # "idle"
           /\ call'[s].target = "comment"
           /\ CommentIndex(call'[s].postId, call'[s].targetId) # {})
          => call'[s].outcome # "notfound"]_vars

\* ---- the comment forest
PosIn(records, id) == CHOOSE i \in 1..Len(records) : records[i].id = id

\* nodes are exactly the records at the places `wanted`, each once, in the
\* records' order.
ExactlyInOrder(nodes, records, wanted) ==
    /\ {nodes[i].id : i \in 1..Len(nodes)} = {records[j].id : j \in wanted}
    /\ Len(nodes) = Cardinality(wanted)
    /\ \A i, j \in 1..Len(nodes) :
          i < j => PosIn(records, nodes[i].id) < PosIn(records, nodes[j].id)

IsRoot(r) == r.parentCommentId = Null

ForestOf(forest, records) ==
    /\ ExactlyInOrder(forest, records,
                      {k \in 1..Len(records) : IsRoot(records[k])})
    /\ \A i \in 1..Len(forest) :
          /\ "replies" \in DOMAIN forest[i]
          /\ ExactlyInOrder(forest[i].replies, records,
                {k \in 1..Len(records) : records[k].parentCommentId = forest[i].id})
    /\ records = <<>> => forest = <<>>

\* The displayed entries of the post the last comment snapshot was for.
SnapshotEntries ==
    {i \in 1..Len(uiPosts) :
        lastSnapshot.pid # NoId /\ uiPosts[i].id = lastSnapshot.pid}

\* C9: the forest displayed for a post after a comment snapshot has as roots
\* exactly the snapshot's records without a parent id, in the snapshot's
\* order, each with exactly the records naming it as parent as replies, in
\* the snapshot's order; an empty snapshot gives an empty forest.
C9_ForestOfSnapshot ==
    \A i \in SnapshotEntries :
        /\ "comments" \in DOMAIN uiPosts[i]
        /\ ForestOf(uiPosts[i].comments, lastSnapshot.docs)

\* Two roots, one of them with a reply, displayed.
C9_Witness ==
    \E i \in SnapshotEntries :
        /\ Len(uiPosts[i].comments) = 2
        /\ \E k \in 1..2 : Len(uiPosts[i].comments[k].replies) = 1

RootIds(records) ==
    {records[j].id : j \in {k \in 1..Len(records) : IsRoot(records[k])}}

Orphans(records) ==
    {j \in 1..Len(records) :
        /\ records[j].parentCommentId # Null
        /\ records[j].parentCommentId \notin RootIds(records)}

\* C10: a record whose parent id is set and is not the id of a root record is
\* rendered nowhere in the displayed forest, at any depth.
C10_OrphansHidden ==
    \A i \in SnapshotEntries :
        \A j \in Orphans(lastSnapshot.docs) :
            ~Includes(CommentSection(uiPosts[i]), lastSnapshot.docs[j].id)

\* A reply to a missing comment and a reply to a reply, in one snapshot.
C10_Witness ==
    /\ SnapshotEntries # {}
    /\ \E j, k \in Orphans(lastSnapshot.docs) :
          LET ids == {lastSnapshot.docs[n].id : n \in 1..Len(lastSnapshot.docs)} IN
          /\ lastSnapshot.docs[j].parentCommentId \notin ids
          /\ lastSnapshot.docs[k].parentCommentId \in ids

\* A record naming as parent a comment that is not in the collection.
MissingParent(records) ==
    {j \in 1..Len(records) :
        /\ records[j].parentCommentId # Null
        /\ records[j].parentCommentId \notin
              {records[n].id : n \in 1..Len(records)}}

\* C11: a record whose parent id names a comment that is not in the post's
\* collection is one of the top-level comments of the displayed forest.
C11_OrphansTopLevel ==
    \A i \in SnapshotEntries :
        \A j \in MissingParent(lastSnapshot.docs) :
            /\ "comments" \in DOMAIN uiPosts[i]
            /\ \E k \in 1..Len(uiPosts[i].comments) :
                  uiPosts[i].comments[k].id = lastSnapshot.docs[j].id

\* ---- the displayed list
Displayed(id) == \E i \in 1..Len(uiPosts) : uiPosts[i].id = id

\* C12: once the posts listener is subscribed, every displayed post has
\* exactly one active comments subscription and every post not displayed has
\* none; after the unmount no comments subscription is active.
C12_SubscriptionLifecycle ==
    /\ postsListener = "open" =>
          \A id \in AllPostIds : subs[id] = IF Displayed(id) THEN 1 ELSE 0
    /\ postsListener = "closed" => \A id \in AllPostIds : subs[id] = 0

\* C13: the displayed list is in descending order of creation time after
\* every posts snapshot and every comment snapshot.
C13_NewestFirst ==
    \A i, j \in 1..Len(uiPosts) :
        i < j => uiPosts[i].createdAt >= uiPosts[j].createdAt

\* The later document of the snapshot is the newer post, displayed first, and
\* a comment snapshot has been processed since.
C13_Witness ==
    /\ Len(uiPosts) = 2
    /\ uiPosts[1].createdAt > uiPosts[2].createdAt
    /\ postOrder = <<uiPosts[2].id, uiPosts[1].id>>
    /\ lastSnapshot.pid # NoId

\* The displayed comments of an entry (none before its first comment snapshot).
DisplayedComments(p) == IF "comments" \in DOMAIN p THEN p.comments ELSE <<>>

Consistent ==
    \A i \in 1..Len(uiPosts) :
        DisplayedComments(uiPosts[i]) = BuildForest(comments[uiPosts[i].id])

\* C17: when the store has stopped changing and the store delivers every
\* notification it owes, from some point on every displayed post's comments
\* are the forest of its stored comment records.
C17_EventuallyConsistent == <>[]Consistent

\* A post displayed with its comments after a second posts snapshot replaced
\* its entry by one without comments.
C17_Witness ==
    \E i \in 1..Len(uiPosts) :
        /\ subs[uiPosts[i].id] >= 2
        /\ comments[uiPosts[i].id] # <<>>
        /\ DisplayedComments(uiPosts[i]) = BuildForest(comments[uiPosts[i].id])

\* A comment snapshot for post pid is delivered in this step.
Delivered(pid) == pending.comments[pid] /\ ~pending'.comments[pid]

\* Nothing but the comments field of the entry of pid changes.
OnlyCommentsOf(pid) ==
    /\ Len(uiPosts') = Len(uiPosts)
    /\ \A i \in 1..Len(uiPosts) :
          IF uiPosts[i].id = pid
          THEN /\ DOMAIN uiPosts'[i] = DOMAIN uiPosts[i] \cup {"comments"}
               /\ \A k \in DOMAIN uiPosts[i] \ {"comments"} :
                     uiPosts'[i][k] = uiPosts[i][k]
          ELSE uiPosts'[i] = uiPosts[i]

\* C20: a comment snapshot for post P changes only the comments field of the
\* displayed entry of P: no entry is added, removed or moved, no other entry
\* changes, and with P not displayed the list stays as it is.
C20_CommentSnapshotFrame ==
    [][\A pid \in AllPostIds : Delivered(pid) => OnlyCommentsOf(pid)]_vars

\* Two posts displayed, both with comments, the last snapshot for the second.
C20_Witness ==
    /\ Len(uiPosts) = 2
    /\ lastSnapshot.pid = uiPosts[2].id
    /\ \A i \in 1..2 : DisplayedComments(uiPosts[i]) # <<>>

\* ---- errors of handleVote
\* A store call of a handler of the watching client is rejected in this step:
\* the addDoc or deleteDoc of a handler, or an updateDoc of handleVote.
StoreCallRejected ==
    \/ lastCall' # lastCall /\ lastCall'.outcome = "rejected"
    \/ \E s \in Calls :
          /\ call[s].pc \in {"w1", "w2"}
          /\ call'[s].pc = "done" /\ call'[s].outcome = "failed"

\* The messages that report no failure.
Notices == {"", PleaseWrite, SignInToVote, SignedOutMessage}

\* C14: whenever a store call made by handleVote, handlePostSubmit,
\* handlePostDelete, handleCommentSubmit or handleCommentDelete is rejected,
\* the message box is open with an error message after the step.
C14_FailuresShown ==
    [][StoreCallRejected => modalMessage' \notin Notices]_vars

\* A handleVote call started earlier comes to one of its writes.
VoteInFlight == \E s \in Calls : call[s].pc \in {"w1", "w2"} /\ call'[s] # call[s]

\* The stored items stay and no handleVote call gets past its read.
NoStoreAccess ==
    /\ UNCHANGED <<posts, comments, postOrder, nextPost, nextComment>>
    /\ \A s \in Calls : call[s].pc = "idle" => call'[s].pc \in {"idle", "done"}

\* C18: while the user state is null, the handlers the client invokes read
\* nothing for an update and write nothing: every step that is not a write of
\* a handleVote call started before leaves the store as it is.
C18_SignedOutNoStoreAccess ==
    [][(user = NoUser /\ ~VoteInFlight) => NoStoreAccess]_vars

\* The last call, with no user, was of a handler whose target is in the store.
C18_Witness ==
    /\ lastCall.user = NoUser
    /\ lastCall.handler \in {"handleCommentDelete", "handlePostDelete", "handleVote"}
    /\ posts # <<>>
    /\ \E pid \in DOMAIN posts : comments[pid] # <<>>

\* C15: a call on a stored post with a vote type that is neither "like" nor
\* "dislike" ends with the invalid-argument outcome and the post's vote fields
\* as the call read them.
C15_InvalidVoteType ==
    \A s \in Calls :
        LET c == call[s] IN
        (/\ c.pc = "done" /\ c.user # NoUser
         /\ c.voteType \notin VoteTypes
         /\ c.target = "post" /\ c.targetId \in DOMAIN posts)
        => /\ c.outcome = "invalid"
           /\ VoteFields(posts[c.targetId]) = c.data

\* The call in slot s comes, in this step, to an update of an absent item: at
\* its read, or at one of its writes.
AbsentAtRead(s) ==
    /\ call[s].pc = "idle" /\ call'[s].pc # "idle"
    /\ call'[s].user # NoUser
    /\ ~RefExists(call'[s])

AbsentAtWrite(s) ==
    /\ call[s].pc \in {"w1", "w2"} /\ call'[s].pc = "done"
    /\ ~RefExists(call[s])

\* C16: a call whose item is absent when it comes to update it, at the read or
\* at a write after another client deleted the item, shows the not-found
\* message, and the store keeps its items as they are.
C16_NotFoundShown ==
    [][\A s \in Calls :
          (AbsentAtRead(s) \/ AbsentAtWrite(s))
          => /\ call'[s].modal = NotFoundMessage
             /\ posts' = posts /\ comments' = comments]_vars

\* ---- auth
AllAuthIdle == \A x \in AuthSlots : authCalls[x].pc = "idle"

\* C19: once every auth-state callback has completed, the user state is the
\* user of the latest notification or null, and null when the latest
\* notification was signed-out.
C19_AuthNoRace == AllAuthIdle => user \in {authUser, NoUser}

\* The callback in slot x resumes, in this step, from a lookup of a user whose
\* record has isBanned true.
ResumesOnBanned(x) ==
    /\ authCalls[x].pc = "lookup"
    /\ authCalls'[x] # authCalls[x]
    /\ authCalls[x].currentUser \in DOMAIN userDocs
    /\ userDocs[authCalls[x].currentUser].isBanned

\* The callback in slot x, which found its user banned, completes in this step.
CompletesOnBanned(x) ==
    /\ authCalls[x].pc = "signout"
    /\ authCalls'[x].pc = "idle"

\* C21: a callback that comes back from the lookup of a banned user goes on
\* to the sign-out, or fails with the user state null, and does not set the
\* user state to that user; when it completes the user state is null.
C21_BannedNeverInstalled ==
    [][\A x \in AuthSlots :
          /\ ResumesOnBanned(x) =>
                /\ \/ authCalls'[x].pc = "signout" /\ user' = user
                   \/ authCalls'[x].pc = "idle" /\ user' = NoUser
          /\ CompletesOnBanned(x) => user' = NoUser]_vars

\* A user who was installed and then banned has been signed out by the
\* callback of a later notification.
C21_Witness ==
    /\ modalMessage = BannedMessage
    /\ user = NoUser /\ authUser = NoUser
    /\ AllAuthIdle
    /\ \E u \in DOMAIN userDocs : userDocs[u].isBanned

====
